---- MODULE Spec2Model ----
(***************************************************************************)
(* Model of csv_to_yaml.py: the converter that reads a function-registry   *)
(* CSV and a team-names CSV and writes one YAML document per function in   *)
(* a directory tree, plus an aggregate catalog-info.yaml.                  *)
(*                                                                         *)
(* Strings are sequences of characters.  A character is a one-character    *)
(* TLA+ string, except the non-ASCII letters, which are named:             *)
(*   "ae" U+00E6, "oe" U+00F8, "aa" U+00E5, "AE" U+00C6, "OE" U+00D8,      *)
(*   "AA" U+00C5, and "ANGSTROM" U+212B (ANGSTROM SIGN, an uppercase       *)
(*   letter whose str.lower() is U+00E5).                                  *)
(***************************************************************************)
EXTENDS Integers, Sequences, FiniteSets, TLC

VARIABLES
    pc,                  \* position in main()
    team_csv,            \* rows of the team-names CSV file (input)
    csv,                 \* rows of the registry CSV file (input)
    team_mapping,        \* load_team_names' result
    functions,           \* the list of function dicts
    read_i,              \* read_csv_data: next row to read
    map_i,               \* main: next function of the team loop
    top_level_functions, \* write_yaml_files_hierarchically: indices of depth-2 records
    top_i,               \* next top-level function to process
    stack,               \* call stack of write_function_recursively
    dirs,                \* directories that exist under output_dir
    fs,                  \* files under output_dir: path -> document
    created_files,       \* created_files list
    writes,              \* history: one entry per document written
    parent_resolved,     \* history: records find_parent_function was called for
    targets,             \* spec.targets of catalog-info.yaml (NoFile before it exists)
    san_in,              \* sanitizer harness: the input string
    san_out,             \* sanitizer harness: the output
    san_kind,            \* sanitizer harness: which sanitizer was applied
    current_path,        \* find_child_functions harness: the argument
    children             \* find_child_functions harness: the result

vars == <<pc, team_csv, csv, team_mapping, functions, read_i, map_i,
          top_level_functions, top_i, stack, dirs, fs, created_files, writes,
          parent_resolved, targets, san_in, san_out, san_kind, current_path,
          children>>

-----------------------------------------------------------------------------
(* Bounds of the model *)

MaxRecords == 3
MaxDepRecords == 2
MaxLen == 3
MaxPathLen == 3
MaxChildRecords == 2

-----------------------------------------------------------------------------
(* Characters: str.isalnum, str.lower, code point order *)

LowerAscii == <<"a","b","c","d","e","f","g","h","i","j","k","l","m",
                "n","o","p","q","r","s","t","u","v","w","x","y","z">>
UpperAscii == <<"A","B","C","D","E","F","G","H","I","J","K","L","M",
                "N","O","P","Q","R","S","T","U","V","W","X","Y","Z">>
Digits == <<"0","1","2","3","4","5","6","7","8","9">>

Range(s) == {s[i] : i \in 1..Len(s)}

IndexOf(s, c) == CHOOSE i \in 1..Len(s) : s[i] = c

Uppercase == Range(UpperAscii)

Alphanumeric ==
    Range(LowerAscii) \cup Range(UpperAscii) \cup Range(Digits)
        \cup {"ae", "oe", "aa", "AE", "OE", "AA", "ANGSTROM"}

isalnum(c) == c \in Alphanumeric

lowerChar(c) ==
    IF c \in Uppercase THEN LowerAscii[IndexOf(UpperAscii, c)]
    ELSE IF c = "AE" THEN "ae"
    ELSE IF c = "OE" THEN "oe"
    ELSE IF c \in {"AA", "ANGSTROM"} THEN "aa"
    ELSE c

lower(s) == [i \in 1..Len(s) |-> lowerChar(s[i])]

\* Characters in code point order (those that can occur in an emitted path).
CodeOrder == <<"\t", "\n", "\r", " ", "!", ",", "-", ".", "/">> \o Digits
             \o <<":">> \o UpperAscii \o <<"\\", "_">> \o LowerAscii
             \o <<"AA", "AE", "OE", "aa", "ae", "oe", "ANGSTROM">>

Ord(c) == IndexOf(CodeOrder, c)

-----------------------------------------------------------------------------
(* String operations of the Python runtime used by the script *)

replace(s, old, new) == [i \in 1..Len(s) |-> IF s[i] = old THEN new ELSE s[i]]

remove(s, c) == SelectSeq(s, LAMBDA x : x # c)

RECURSIVE RemoveEach(_, _)
RemoveEach(s, chars) ==
    IF chars = <<>> THEN s ELSE RemoveEach(remove(s, Head(chars)), Tail(chars))

RECURSIVE lstrip(_, _)
lstrip(s, set) ==
    IF s # <<>> /\ Head(s) \in set THEN lstrip(Tail(s), set) ELSE s

RECURSIVE rstrip(_, _)
rstrip(s, set) ==
    IF s # <<>> /\ s[Len(s)] \in set THEN rstrip(SubSeq(s, 1, Len(s) - 1), set) ELSE s

strip(s, set) == rstrip(lstrip(s, set), set)

Whitespace == {" ", "\t", "\n", "\r"}

startswith(s, p) == Len(s) >= Len(p) /\ SubSeq(s, 1, Len(p)) = p

\* s.split(sep) for a one-character separator: "" splits to [""].
RECURSIVE split(_, _)
split(s, sep) ==
    IF \A i \in 1..Len(s) : s[i] # sep THEN <<s>>
    ELSE LET k == CHOOSE i \in 1..Len(s) :
                      s[i] = sep /\ \A j \in 1..(i - 1) : s[j] # sep
         IN  <<SubSeq(s, 1, k - 1)>> \o split(SubSeq(s, k + 1, Len(s)), sep)

RECURSIVE join(_, _)
join(parts, sep) ==
    IF parts = <<>> THEN <<>>
    ELSE IF Len(parts) = 1 THEN parts[1]
    ELSE parts[1] \o sep \o join(Tail(parts), sep)

-----------------------------------------------------------------------------
(* The three sanitizers *)

chars_to_remove == <<"ae", "oe", "aa", "AE", "OE", "AA">>

sanitize_for_owner(name) ==
    LET s1 == replace(name, " ", "_")
        s2 == RemoveEach(s1, chars_to_remove)
        s3 == SelectSeq(s2, LAMBDA c : isalnum(c) \/ c \in {"-", "_", ".", ":", "/"})
    IN  lower(s3)

sanitize_for_metadata(name) ==
    LET s1 == replace(name, " ", "_")
        s2 == RemoveEach(s1, chars_to_remove)
        s3 == SelectSeq(s2, LAMBDA c : isalnum(c) \/ c \in {"-", "_", "."})
        s4 == lower(s3)
    IN  strip(s4, {".", "-", "_", "\\"})

sanitize_filename(name) ==
    LET n1 == RemoveEach(name, chars_to_remove)
        f1 == replace(lower(n1), " ", "-")
        f2 == SelectSeq(f1, LAMBDA c : isalnum(c) \/ c = "-")
    IN  join(SelectSeq(split(f2, "-"), LAMBDA p : p # <<>>), <<"-">>)

-----------------------------------------------------------------------------
(* Literals of the script *)

rootfunction == <<"r","o","o","t","f","u","n","c","t","i","o","n">>
kartverket == <<"k","a","r","t","v","e","r","k","e","t">>
group_default_kartverket ==
    <<"g","r","o","u","p",":","d","e","f","a","u","l","t","/">> \o kartverket
group_default_statens_kartverk ==
    <<"g","r","o","u","p",":","d","e","f","a","u","l","t","/",
      "s","t","a","t","e","n","s","_","k","a","r","t","v","e","r","k">>
yaml_suffix == <<".","y","a","m","l">>

AAD_TF == <<"A","A","D"," ","-"," ","T","F"," ","-"," ">>
prefixes == <<
    AAD_TF \o <<"T","E","A","M"," ","-"," ">>,
    AAD_TF \o <<"B","U","S","I","N","E","S","S"," ","U","N","I","T"," ","-"," ">>,
    AAD_TF \o <<"P","R","O","D","U","C","T"," ","A","R","E","A"," ","-"," ">>,
    AAD_TF \o <<"R","O","L","E"," ","-"," ">> >>

\* Python's None (find_parent_function's "not found"): no string equals it.
None == <<"<None>">>

\* catalog-info.yaml before write_locations_file has run.
NoFile == <<"<no file>">>

-----------------------------------------------------------------------------
(* load_team_names *)

\* The first prefix the name starts with is cut off; at most one.
RECURSIVE StripPrefix(_, _)
StripPrefix(team_name, ps) ==
    IF ps = <<>> THEN team_name
    ELSE IF startswith(team_name, Head(ps))
         THEN SubSeq(team_name, Len(Head(ps)) + 1, Len(team_name))
         ELSE StripPrefix(team_name, Tail(ps))

\* dict assignment d[k] = v
DictSet(d, k, v) == [x \in DOMAIN d \cup {k} |-> IF x = k THEN v ELSE d[x]]

EmptyDict == [x \in {} |-> <<>>]

RECURSIVE load_team_names_from(_, _)
load_team_names_from(rows, team_mapping_) ==
    IF rows = <<>> THEN team_mapping_
    ELSE load_team_names_from(
             Tail(rows),
             DictSet(team_mapping_, Head(rows).id,
                     StripPrefix(Head(rows).displayName, prefixes)))

load_team_names(team_csv_file) == load_team_names_from(team_csv_file, EmptyDict)

-----------------------------------------------------------------------------
(* read_csv_data *)

ParseDependencies(cell) ==
    LET dependencies_str == strip(cell, Whitespace)
    IN  IF dependencies_str = <<>> THEN <<>>
        ELSE LET parts == split(dependencies_str, ",")
                 stripped == [i \in 1..Len(parts) |-> strip(parts[i], Whitespace)]
             IN  SelectSeq(stripped, LAMBDA dep : dep # <<>>)

ParseRow(row) ==
    [id |-> row.id, name |-> row.name, path |-> row.path, team |-> row.team,
     beskrivelse |-> row.beskrivelse, kritikalitet |-> row.kritikalitet,
     dependencies |-> ParseDependencies(row.dependencies)]

-----------------------------------------------------------------------------
(* resolve_dependencies *)

RECURSIVE build_id_to_name(_, _)
build_id_to_name(funcs, id_to_name) ==
    IF funcs = <<>> THEN id_to_name
    ELSE build_id_to_name(
             Tail(funcs),
             DictSet(id_to_name, Head(funcs).id, sanitize_for_metadata(Head(funcs).name)))

resolve_one(func, id_to_name) ==
    [func EXCEPT !.dependencies =
        [k \in 1..Len(func.dependencies) |->
            IF func.dependencies[k] \in DOMAIN id_to_name
            THEN id_to_name[func.dependencies[k]]
            ELSE func.dependencies[k]]]

\* Variant: the mapping a record is resolved with holds only the records up
\* to it in file order (no forward references).
resolve_dependencies_no_forward(funcs) ==
    [i \in 1..Len(funcs) |->
        resolve_one(funcs[i], build_id_to_name(SubSeq(funcs, 1, i), EmptyDict))]

resolve_dependencies(funcs) ==
    LET id_to_name == build_id_to_name(funcs, EmptyDict)
    IN  [i \in 1..Len(funcs) |-> resolve_one(funcs[i], id_to_name)]

-----------------------------------------------------------------------------
(* find_parent_function, find_child_functions *)

depth(path) == Len(split(path, "."))

\* A list of records is a sequence; a record is referred to by its index.
\* `keep` is the set of indices the loop's test accepts; the loop appends
\* them in file order.
Indices(all_functions, keep) ==
    LET RECURSIVE scan(_)
        scan(i) == IF i > Len(all_functions) THEN <<>>
                   ELSE (IF i \in keep THEN <<i>> ELSE <<>>) \o scan(i + 1)
    IN  scan(1)

\* Variant: `< 2` for `<= 2` in the top-level test.
find_parent_function_lt(path, all_functions) ==
    LET path_parts == split(path, ".")
    IN  IF Len(path_parts) < 2 THEN rootfunction
        ELSE LET parent_path == join(SubSeq(path_parts, 1, Len(path_parts) - 1), <<".">>)
                 found == Indices(all_functions,
                                  {i \in 1..Len(all_functions) :
                                       all_functions[i].path = parent_path})
             IN  IF found = <<>> THEN None
                 ELSE sanitize_for_metadata(all_functions[Head(found)].name)

\* Variant: the last record with the parent path, not the first.
find_parent_function_last(path, all_functions) ==
    LET path_parts == split(path, ".")
    IN  IF Len(path_parts) <= 2 THEN rootfunction
        ELSE LET parent_path == join(SubSeq(path_parts, 1, Len(path_parts) - 1), <<".">>)
                 found == Indices(all_functions,
                                  {i \in 1..Len(all_functions) :
                                       all_functions[i].path = parent_path})
             IN  IF found = <<>> THEN None
                 ELSE sanitize_for_metadata(all_functions[found[Len(found)]].name)

find_parent_function(path, all_functions) ==
    LET path_parts == split(path, ".")
    IN  IF Len(path_parts) <= 2 THEN rootfunction
        ELSE LET parent_path == join(SubSeq(path_parts, 1, Len(path_parts) - 1), <<".">>)
                 found == Indices(all_functions,
                                  {i \in 1..Len(all_functions) :
                                       all_functions[i].path = parent_path})
             IN  IF found = <<>> THEN None
                 ELSE sanitize_for_metadata(all_functions[Head(found)].name)

\* Variant: the depth test is left out (every descendant is a child).
find_child_functions_any_depth(path, all_functions) ==
    Indices(all_functions,
            {i \in 1..Len(all_functions) :
                 startswith(all_functions[i].path, path \o <<".">>)})

find_child_functions(path, all_functions) ==
    LET current_depth == depth(path)
    IN  Indices(all_functions,
                {i \in 1..Len(all_functions) :
                     /\ startswith(all_functions[i].path, path \o <<".">>)
                     /\ depth(all_functions[i].path) = current_depth + 1})

-----------------------------------------------------------------------------
(* create_yaml_structure *)

\* Variant: only the bare literal is overridden.
Owner_bare_only(team_value) ==
    IF team_value = kartverket
    THEN group_default_statens_kartverk
    ELSE sanitize_for_owner(team_value)

Owner(team_value) ==
    IF team_value = group_default_kartverket \/ team_value = kartverket
    THEN group_default_statens_kartverk
    ELSE sanitize_for_owner(team_value)

create_yaml_structure(function, parent_function) ==
    LET original_name == strip(function.name, Whitespace)
    IN  [name |-> sanitize_for_metadata(original_name),
         title |-> original_name,
         description |-> function.beskrivelse,
         owner |-> Owner(function.team),
         criticality |-> function.kritikalitet,
         parentFunction |-> parent_function,
         dependsOnFunctions |-> function.dependencies]

-----------------------------------------------------------------------------
(* Paths (pathlib) and write_locations_file *)

\* A path below output_dir is the sequence of its components; output_dir is <<>>.
output_dir == <<>>

\* parent / name: an empty name adds no component.
PathJoin(dir, name) == IF name = <<>> THEN dir ELSE Append(dir, name)

\* str() of a relative path
PathStr(path) == join(path, <<"/">>)

Prefixes(path) == {SubSeq(path, 1, n) : n \in 0..Len(path)}

RECURSIVE StrLess(_, _)
StrLess(a, b) ==
    IF a = <<>> THEN b # <<>>
    ELSE IF b = <<>> THEN FALSE
    ELSE IF Head(a) = Head(b) THEN StrLess(Tail(a), Tail(b))
    ELSE Ord(Head(a)) < Ord(Head(b))

RECURSIVE sorted(_)
sorted(list) ==
    IF list = <<>> THEN <<>>
    ELSE LET rest == sorted(SubSeq(list, 1, Len(list) - 1))
             x == list[Len(list)]
             k == Cardinality({i \in 1..Len(rest) : ~StrLess(x, rest[i])})
         IN  SubSeq(rest, 1, k) \o <<x>> \o SubSeq(rest, k + 1, Len(rest))

\* Every created file lies below output_dir, so relative_to never raises.
relative_paths(files) == [i \in 1..Len(files) |-> <<".", "/">> \o PathStr(files[i])]

write_locations_file(files) == sorted(relative_paths(files))

-----------------------------------------------------------------------------
(* main: the pipeline, one action per step of the script *)

pipeline_vars == <<pc, team_csv, csv, team_mapping, functions, read_i, map_i,
                   top_level_functions, top_i, stack, dirs, fs, created_files,
                   writes, parent_resolved, targets>>
harness_vars == <<san_in, san_out, san_kind, current_path, children>>

\* team_mapping = load_team_names(team_csv_file)
LoadTeamNames ==
    /\ pc = "load_teams"
    /\ team_mapping' = load_team_names(team_csv)
    /\ pc' = "read"
    /\ UNCHANGED <<team_csv, csv, functions, read_i, map_i, top_level_functions,
                   top_i, stack, dirs, fs, created_files, writes, parent_resolved,
                   targets, harness_vars>>

\* read_csv_data: one row of the reader's loop
ReadRow ==
    /\ pc = "read"
    /\ read_i <= Len(csv)
    /\ functions' = Append(functions, ParseRow(csv[read_i]))
    /\ read_i' = read_i + 1
    /\ UNCHANGED <<pc, team_csv, csv, team_mapping, map_i, top_level_functions,
                   top_i, stack, dirs, fs, created_files, writes, parent_resolved,
                   targets, harness_vars>>

\* The reader is exhausted: read_csv_data returns.
EndOfCsv == read_i > Len(csv)

ReadDone ==
    /\ pc = "read"
    /\ EndOfCsv
    /\ pc' = "resolve"
    /\ UNCHANGED <<team_csv, csv, team_mapping, functions, read_i, map_i,
                   top_level_functions, top_i, stack, dirs, fs, created_files,
                   writes, parent_resolved, targets, harness_vars>>

\* resolve_dependencies(functions)
ResolveDependencies ==
    /\ pc = "resolve"
    /\ functions' = resolve_dependencies(functions)
    /\ pc' = "map_teams"
    /\ map_i' = 1
    /\ UNCHANGED <<team_csv, csv, team_mapping, read_i, top_level_functions,
                   top_i, stack, dirs, fs, created_files, writes, parent_resolved,
                   targets, harness_vars>>

\* One iteration of main's team loop
MapTeam ==
    /\ pc = "map_teams"
    /\ map_i <= Len(functions)
    /\ LET team_id == functions[map_i].team
       IN  functions' = [functions EXCEPT ![map_i].team =
                            IF team_id \in DOMAIN team_mapping
                            THEN team_mapping[team_id] ELSE team_id]
    /\ map_i' = map_i + 1
    /\ UNCHANGED <<pc, team_csv, csv, team_mapping, read_i, top_level_functions,
                   top_i, stack, dirs, fs, created_files, writes, parent_resolved,
                   targets, harness_vars>>

\* Variant: the team loop may be left after its first iteration.
EndOfTeamLoop_early == map_i > 1

\* The team loop has ended.
EndOfTeamLoop == map_i > Len(functions)

\* write_yaml_files_hierarchically is entered: top_level_functions, created_files = []
StartWrite ==
    /\ pc = "map_teams"
    /\ EndOfTeamLoop
    /\ top_level_functions' =
           Indices(functions,
                   {i \in 1..Len(functions) : depth(functions[i].path) = 2})
    /\ top_i' = 1
    /\ created_files' = <<>>
    /\ pc' = "writing"
    /\ UNCHANGED <<team_csv, csv, team_mapping, functions, read_i, map_i, stack,
                   dirs, fs, writes, parent_resolved, targets, harness_vars>>

\* A frame of write_function_recursively(function, parent_dir); `via` is the
\* record of the calling frame (0: called from the top-level loop).
Frame(function, parent_dir, via) ==
    [function |-> function, parent_dir |-> parent_dir, via |-> via,
     at |-> "enter", func_name |-> <<>>, child_functions_list |-> <<>>,
     func_folder |-> <<>>, yaml_file |-> <<>>, parent_function |-> None, k |-> 1]

Top == stack[Len(stack)]

SetTop(frame) == [stack EXCEPT ![Len(stack)] = frame]

\* for top_func in top_level_functions: write_function_recursively(top_func, output_dir)
CallTop ==
    /\ pc = "writing"
    /\ stack = <<>>
    /\ top_i <= Len(top_level_functions)
    /\ stack' = <<Frame(top_level_functions[top_i], output_dir, 0)>>
    /\ UNCHANGED <<pc, team_csv, csv, team_mapping, functions, read_i, map_i,
                   top_level_functions, top_i, dirs, fs, created_files, writes,
                   parent_resolved, targets, harness_vars>>

\* func_name, child_functions_list, func_folder.mkdir, yaml_file
Enter ==
    /\ pc = "writing"
    /\ stack # <<>>
    /\ Top.at = "enter"
    /\ LET function == functions[Top.function]
           func_name == sanitize_filename(function.name)
           func_folder == PathJoin(Top.parent_dir, func_name)
       IN  /\ stack' = SetTop([Top EXCEPT
                  !.at = "parent",
                  !.func_name = func_name,
                  !.child_functions_list = find_child_functions(function.path, functions),
                  !.func_folder = func_folder,
                  !.yaml_file = PathJoin(func_folder, func_name \o yaml_suffix)])
           /\ dirs' = dirs \cup Prefixes(func_folder)
    /\ UNCHANGED <<pc, team_csv, csv, team_mapping, functions, read_i, map_i,
                   top_level_functions, top_i, fs, created_files, writes,
                   parent_resolved, targets, harness_vars>>

\* parent_function = find_parent_function(function['path'], functions)
ResolveParent ==
    /\ pc = "writing"
    /\ stack # <<>>
    /\ Top.at = "parent"
    /\ stack' = SetTop([Top EXCEPT
           !.at = "write",
           !.parent_function =
               find_parent_function(functions[Top.function].path, functions)])
    /\ parent_resolved' = parent_resolved \cup {Top.function}
    /\ UNCHANGED <<pc, team_csv, csv, team_mapping, functions, read_i, map_i,
                   top_level_functions, top_i, dirs, fs, created_files, writes,
                   targets, harness_vars>>

\* The document is written to yaml_file (replacing what was there) and the
\* path is appended to created_files.
WriteYaml ==
    /\ pc = "writing"
    /\ stack # <<>>
    /\ Top.at = "write"
    /\ LET yaml_data == create_yaml_structure(functions[Top.function], Top.parent_function)
       IN  /\ fs' = DictSet(fs, Top.yaml_file, yaml_data)
           /\ writes' = Append(writes,
                  [function |-> Top.function, via |-> Top.via,
                   func_folder |-> Top.func_folder, yaml_file |-> Top.yaml_file,
                   yaml_data |-> yaml_data])
    /\ created_files' = Append(created_files, Top.yaml_file)
    /\ stack' = SetTop([Top EXCEPT !.at = "children"])
    /\ UNCHANGED <<pc, team_csv, csv, team_mapping, functions, read_i, map_i,
                   top_level_functions, top_i, dirs, parent_resolved, targets,
                   harness_vars>>

\* for child_func in child_functions_list: write_function_recursively(child_func, func_folder)
CallChild ==
    /\ pc = "writing"
    /\ stack # <<>>
    /\ Top.at = "children"
    /\ Top.k <= Len(Top.child_functions_list)
    /\ stack' = Append(SetTop([Top EXCEPT !.k = @ + 1]),
                       Frame(Top.child_functions_list[Top.k], Top.func_folder,
                             Top.function))
    /\ UNCHANGED <<pc, team_csv, csv, team_mapping, functions, read_i, map_i,
                   top_level_functions, top_i, dirs, fs, created_files, writes,
                   parent_resolved, targets, harness_vars>>

\* write_function_recursively returns; the top-level loop moves on.
Return ==
    /\ pc = "writing"
    /\ stack # <<>>
    /\ Top.at = "children"
    /\ Top.k > Len(Top.child_functions_list)
    /\ stack' = SubSeq(stack, 1, Len(stack) - 1)
    /\ top_i' = IF Len(stack) = 1 THEN top_i + 1 ELSE top_i
    /\ UNCHANGED <<pc, team_csv, csv, team_mapping, functions, read_i, map_i,
                   top_level_functions, dirs, fs, created_files, writes,
                   parent_resolved, targets, harness_vars>>

\* write_yaml_files_hierarchically returns created_files.
FinishWrite ==
    /\ pc = "writing"
    /\ stack = <<>>
    /\ top_i > Len(top_level_functions)
    /\ pc' = "locations"
    /\ UNCHANGED <<team_csv, csv, team_mapping, functions, read_i, map_i,
                   top_level_functions, top_i, stack, dirs, fs, created_files,
                   writes, parent_resolved, targets, harness_vars>>

\* write_locations_file(created_files, output_dir): catalog-info.yaml
WriteLocationsFile ==
    /\ pc = "locations"
    /\ targets' = write_locations_file(created_files)
    /\ pc' = "done"
    /\ UNCHANGED <<team_csv, csv, team_mapping, functions, read_i, map_i,
                   top_level_functions, top_i, stack, dirs, fs, created_files,
                   writes, parent_resolved, harness_vars>>

Next ==
    \/ LoadTeamNames
    \/ ReadRow
    \/ ReadDone
    \/ ResolveDependencies
    \/ MapTeam
    \/ StartWrite
    \/ CallTop
    \/ Enter
    \/ ResolveParent
    \/ WriteYaml
    \/ CallChild
    \/ Return
    \/ FinishWrite
    \/ WriteLocationsFile

-----------------------------------------------------------------------------
(* Inputs: the two CSV files the script is started on *)

Row(id, name, path, team, dependencies) ==
    [id |-> id, name |-> name, path |-> path, team |-> team,
     beskrivelse |-> <<>>, kritikalitet |-> <<>>, dependencies |-> dependencies]

TeamRow(id, displayName) == [id |-> id, displayName |-> displayName]

SeqsUpTo(S, n) == UNION {[1..m -> S] : m \in 0..n}

T1 == <<"T", "1">>
ALPHA == <<"A","L","P","H","A">>
FunctionId(i) == <<"F", Digits[i + 1]>>

\* The state main() starts in, on the given files.
Start(team_csv_file, csv_file) ==
    /\ pc = "load_teams"
    /\ team_csv = team_csv_file
    /\ csv = csv_file
    /\ team_mapping = EmptyDict
    /\ functions = <<>>
    /\ read_i = 1
    /\ map_i = 1
    /\ top_level_functions = <<>>
    /\ top_i = 1
    /\ stack = <<>>
    /\ dirs = {output_dir}
    /\ fs = EmptyDict
    /\ created_files = <<>>
    /\ writes = <<>>
    /\ parent_resolved = {}
    /\ targets = NoFile
    /\ san_in = <<>>
    /\ san_out = <<>>
    /\ san_kind = "none"
    /\ current_path = <<>>
    /\ children = <<>>

\* Registries that vary names and paths: equal and empty file names, equal
\* paths, records without a parent record, a one-segment path, a chain.
TreeNames == { <<"A", " ", "b">>, <<"a", "-", "b">>, <<"!">> }
TreePaths == { <<"1">>, <<"1", ".", "1">>, <<"1", ".", "2">>,
               <<"1", ".", "1", ".", "1">>, <<"1", ".", "1", ".", "1", ".", "1">> }
TreeCsvs ==
    { [i \in DOMAIN np |-> Row(FunctionId(i), np[i][1], np[i][2], T1, <<>>)] :
        np \in SeqsUpTo(TreeNames \X TreePaths, MaxRecords) }

Init ==
    \E csv_file \in TreeCsvs :
        Start(<<TeamRow(T1, prefixes[1] \o ALPHA)>>, csv_file)

Spec == Init /\ [][Next]_vars

-----------------------------------------------------------------------------
(* Registries that vary ids and dependency cells *)

F1 == FunctionId(1)
F2 == FunctionId(2)
F9 == FunctionId(9)

DepCells == { <<>>,
              F2,
              F1 \o <<",">> \o F2,
              F2 \o <<",", " ">> \o F2,
              F9 \o <<",">> \o F1,
              <<" ">> \o F1 \o <<" ", ",", ",">> \o F2 \o <<" ">> }

DepName(i) ==
    IF i = 1 THEN <<"R","o","o","t"," ","O","n","e">>
    ELSE IF i = 2 THEN <<"C","h","i","l","d"," ","OE">>
    ELSE <<"X", Digits[i + 1], ".">>

DepPath(i) ==
    IF i = 2 THEN <<"1", ".", "1", ".", "1">> ELSE <<"1", ".", Digits[i + 1]>>

DepCsvs ==
    { [i \in DOMAIN ic |-> Row(ic[i][1], DepName(i), DepPath(i), T1, ic[i][2])] :
        ic \in SeqsUpTo({F1, F2} \X DepCells, MaxDepRecords) }

InitDeps ==
    \E csv_file \in DepCsvs :
        Start(<<TeamRow(T1, prefixes[1] \o ALPHA)>>, csv_file)

SpecDeps == InitDeps /\ [][Next]_vars

-----------------------------------------------------------------------------
(* Registries and team files that vary the team values *)

TeamX == <<"T","e","a","m"," ","X">>

TeamValues == {kartverket, group_default_kartverket, T1, TeamX}

DisplayNames == { prefixes[1] \o ALPHA, kartverket, group_default_kartverket,
                  prefixes[4] \o kartverket, <<"K">> \o Tail(kartverket) }

TeamCsvs == SeqsUpTo({TeamRow(id, n) : id \in {T1, kartverket}, n \in DisplayNames}, 2)

TeamRegistries ==
    { <<Row(F1, <<"a">>, DepPath(1), t[1], <<>>),
        Row(F2, <<"b">>, DepPath(2), t[2], <<>>)>> : t \in TeamValues \X TeamValues }

InitTeam ==
    \E team_csv_file \in TeamCsvs, csv_file \in TeamRegistries :
        Start(team_csv_file, csv_file)

SpecTeam == InitTeam /\ [][Next]_vars

-----------------------------------------------------------------------------
(* The sanitizers on their own, applied to every short string *)

SanChars == {"A", "b", " ", "-", "_", ".", ":", "/", "\\", "!", "ae", "AA", "ANGSTROM"}

Harness(name, all_functions) ==
    /\ pc = "harness"
    /\ team_csv = <<>>
    /\ csv = <<>>
    /\ team_mapping = EmptyDict
    /\ functions = all_functions
    /\ read_i = 1
    /\ map_i = 1
    /\ top_level_functions = <<>>
    /\ top_i = 1
    /\ stack = <<>>
    /\ dirs = {output_dir}
    /\ fs = EmptyDict
    /\ created_files = <<>>
    /\ writes = <<>>
    /\ parent_resolved = {}
    /\ targets = NoFile
    /\ san_in = name
    /\ san_out = <<>>
    /\ san_kind = "none"
    /\ current_path = None
    /\ children = <<>>

InitSan == \E name \in SeqsUpTo(SanChars, MaxLen) : Harness(name, <<>>)

ApplyOwner ==
    /\ san_kind = "none"
    /\ san_out' = sanitize_for_owner(san_in)
    /\ san_kind' = "owner"
    /\ UNCHANGED <<pipeline_vars, san_in, current_path, children>>

ApplyMetadata ==
    /\ san_kind = "none"
    /\ san_out' = sanitize_for_metadata(san_in)
    /\ san_kind' = "metadata"
    /\ UNCHANGED <<pipeline_vars, san_in, current_path, children>>

ApplyFilename ==
    /\ san_kind = "none"
    /\ san_out' = sanitize_filename(san_in)
    /\ san_kind' = "filename"
    /\ UNCHANGED <<pipeline_vars, san_in, current_path, children>>

NextSan == ApplyOwner \/ ApplyMetadata \/ ApplyFilename

SpecSan == InitSan /\ [][NextSan]_vars

-----------------------------------------------------------------------------
(* find_child_functions on its own, on every short list of short paths *)

PathStrings == SeqsUpTo({"1", "."}, MaxPathLen)

ChildLists ==
    { [i \in DOMAIN ps |-> Row(FunctionId(i), <<"n">>, ps[i], T1, <<>>)] :
        ps \in SeqsUpTo(PathStrings, MaxChildRecords) }

InitChild == \E all_functions \in ChildLists : Harness(<<>>, all_functions)

FindChildFunctions ==
    /\ pc = "harness"
    /\ current_path = None
    /\ \E a \in PathStrings :
          /\ current_path' = a
          /\ children' = find_child_functions(a, functions)
    /\ UNCHANGED <<pipeline_vars, san_in, san_out, san_kind>>

NextChild == FindChildFunctions

SpecChild == InitChild /\ [][NextChild]_vars

-----------------------------------------------------------------------------
(* Properties *)

Written == {writes[w].function : w \in 1..Len(writes)}

Dots(path) == Cardinality({k \in 1..Len(path) : path[k] = "."})

Ids == {functions[j].id : j \in 1..Len(functions)}

\* C1: once resolve_dependencies has run, every record's dependency list is
\* as long as the list parsed from its CSV cell and holds, position by
\* position, the metadata-sanitized name of a record with the raw id when a
\* record with that id exists anywhere in the list, and the raw id otherwise.
C1_DependenciesResolved ==
    pc \in {"map_teams", "writing", "locations", "done"} =>
        \A i \in 1..Len(functions) :
            LET raw == ParseDependencies(csv[i].dependencies)
                resolved == functions[i].dependencies
            IN  /\ Len(resolved) = Len(raw)
                /\ \A k \in 1..Len(raw) :
                       IF raw[k] \in Ids
                       THEN \E j \in 1..Len(functions) :
                                /\ functions[j].id = raw[k]
                                /\ resolved[k] = sanitize_for_metadata(csv[j].name)
                       ELSE resolved[k] = raw[k]

\* C1 witness: a record lists twice the id of a record later in the file and
\* holds that record's sanitized name twice, and an id of no record is kept.
C1_Witness ==
    /\ pc = "done"
    /\ \E i, j \in 1..Len(functions) :
          /\ i < j
          /\ \A h \in 1..Len(functions) : functions[h].id = functions[j].id => h = j
          /\ ParseDependencies(csv[i].dependencies) = <<functions[j].id, functions[j].id>>
          /\ functions[i].dependencies =
                 <<sanitize_for_metadata(csv[j].name), sanitize_for_metadata(csv[j].name)>>
          /\ functions[i].dependencies[1] # functions[j].id
    /\ \E i \in 1..Len(functions) : F9 \in Range(functions[i].dependencies)

\* C2: at the end of the run every loaded record has been written to exactly
\* one file, and no two records were written to the same directory or file.
C2_OwnDirectoryAndFile ==
    pc = "done" =>
        /\ \A i \in 1..Len(functions) :
               Cardinality({w \in 1..Len(writes) : writes[w].function = i}) = 1
        /\ \A v, w \in 1..Len(writes) :
               writes[v].function # writes[w].function =>
                   /\ writes[v].func_folder # writes[w].func_folder
                   /\ writes[v].yaml_file # writes[w].yaml_file

\* C3: at the end of the run the targets of catalog-info.yaml list every
\* function document in the output tree exactly once, as "./" and its
\* relative path, in sorted order.
C3_TargetsListEachFileOnce ==
    pc = "done" =>
        /\ Range(targets) = {<<".", "/">> \o PathStr(f) : f \in DOMAIN fs}
        /\ \A a, b \in 1..Len(targets) : a # b => targets[a] # targets[b]
        /\ \A a \in 1..(Len(targets) - 1) : ~StrLess(targets[a + 1], targets[a])

Orphan(i) ==
    /\ Dots(functions[i].path) > 1
    /\ \A j \in 1..Len(functions) :
           functions[i].path # functions[j].path \o <<".">>
               \o split(functions[i].path, ".")[Dots(functions[i].path) + 1]

\* C4: at the end of the run a record with more than two path segments whose
\* parent path is no record's path has a document, with a null parentFunction.
C4_OrphanEmitted ==
    pc = "done" =>
        \A i \in 1..Len(functions) :
            Orphan(i) =>
                \E w \in 1..Len(writes) :
                    /\ writes[w].function = i
                    /\ writes[w].yaml_data.parentFunction = None

Overridden == {kartverket, group_default_kartverket}

\* The team value after the lookup: the mapped name when the raw value is a
\* key of the team mapping, the raw value otherwise.
ResolvedTeam(i) ==
    IF csv[i].team \in DOMAIN team_mapping
    THEN team_mapping[csv[i].team] ELSE csv[i].team

\* C5 as claimed: every document of a record whose raw or resolved team value
\* is one of the two literals has the fixed owner.
C5_RawOrResolved ==
    \A w \in 1..Len(writes) :
        (csv[writes[w].function].team \in Overridden
            \/ ResolvedTeam(writes[w].function) \in Overridden)
        => writes[w].yaml_data.owner = group_default_statens_kartverk

\* C5 as amended: every document of a record whose team value after the
\* lookup is one of the two literals has the fixed owner.
C5_Resolved ==
    \A w \in 1..Len(writes) :
        ResolvedTeam(writes[w].function) \in Overridden
        => writes[w].yaml_data.owner = group_default_statens_kartverk

\* C5 witness: one document whose raw team is no literal and is mapped to
\* one, and one whose raw team is a literal that the mapping does not hold.
C5_Witness ==
    /\ \E w \in 1..Len(writes) :
          /\ csv[writes[w].function].team \notin Overridden
          /\ ResolvedTeam(writes[w].function) = group_default_kartverket
          /\ writes[w].yaml_data.owner = group_default_statens_kartverk
    /\ \E w \in 1..Len(writes) :
          /\ csv[writes[w].function].team = kartverket
          /\ kartverket \notin DOMAIN team_mapping
          /\ writes[w].yaml_data.owner = group_default_statens_kartverk

ResolutionBegun == pc \in {"map_teams", "writing", "locations", "done"}

DependenciesDone == pc \in {"map_teams", "writing", "locations", "done"}

TeamsDone == pc \in {"writing", "locations", "done"} /\ map_i > Len(functions)

\* C6 as claimed: the records are all loaded before resolution begins, and
\* when the first document is written the dependency, team and parent
\* resolution of every record is complete.
C6_AllResolvedBeforeFirstWrite ==
    /\ ResolutionBegun => Len(functions) = Len(csv)
    /\ created_files # <<>> =>
           /\ DependenciesDone
           /\ TeamsDone
           /\ parent_resolved = 1..Len(functions)

\* C6 as amended: the records are all loaded before resolution begins; when
\* a document is written the dependency and team resolution of every record
\* is complete; a record's parent is resolved during the walk, before its own
\* document is written and after the documents of the records visited before.
C6_ResolvedBeforeOwnWrite ==
    /\ ResolutionBegun => Len(functions) = Len(csv)
    /\ (created_files # <<>> \/ parent_resolved # {}) =>
           /\ DependenciesDone
           /\ TeamsDone
    /\ Written \subseteq parent_resolved
    /\ Cardinality(parent_resolved \ Written) <= 1

\* C6 witness: a document is written while a record that is written later in
\* the run has not had its parent resolved.
C6_Witness ==
    /\ created_files # <<>>
    /\ \E i \in 1..Len(functions) : i \notin parent_resolved
    /\ stack # <<>>
    /\ Top.at = "write"
    /\ Top.function \notin Written

\* C7: every document written for a record whose path has exactly two
\* segments (one dot) has parentFunction "rootfunction".
C7_TopLevelParent ==
    \A w \in 1..Len(writes) :
        Dots(functions[writes[w].function].path) = 1
        => writes[w].yaml_data.parentFunction = rootfunction

\* C7 witness: such a document is written while a record has the path that
\* is the two-segment path minus its last segment.
C7_Witness ==
    \E w \in 1..Len(writes), j \in 1..Len(functions) :
        /\ functions[writes[w].function].path = functions[j].path \o <<".", "1">>
        /\ Dots(functions[j].path) = 0
        /\ writes[w].yaml_data.parentFunction = rootfunction

\* B's path is A's path, a dot, and one more segment.
OneSegmentBelow(b, a) ==
    /\ Len(b) > Len(a)
    /\ \A k \in 1..Len(a) : b[k] = a[k]
    /\ b[Len(a) + 1] = "."
    /\ Dots(b) = Dots(a) + 1

\* C8: find_child_functions(A.path, records) is, in file order and without
\* repetition, exactly the records whose path starts with A.path and a dot
\* and has one more segment than A.path.
C8_ChildrenExact ==
    current_path # None =>
        /\ \A k \in 1..(Len(children) - 1) : children[k] < children[k + 1]
        /\ Range(children) =
               {i \in 1..Len(functions) : OneSegmentBelow(functions[i].path, current_path)}

\* C8 witness: a child is found and a record two segments below is left out.
C8_Witness ==
    /\ current_path # None
    /\ children # <<>>
    /\ \E i \in 1..Len(functions) :
          /\ startswith(functions[i].path, current_path \o <<".">>)
          /\ i \notin Range(children)

\* C9: each sanitizer applied to its own output returns that output.
C9_Idempotent ==
    /\ san_kind = "owner" => sanitize_for_owner(san_out) = san_out
    /\ san_kind = "metadata" => sanitize_for_metadata(san_out) = san_out
    /\ san_kind = "filename" => sanitize_filename(san_out) = san_out

\* The first record in file order with the path of record i.
FirstWithPath(i) ==
    CHOOSE j \in 1..Len(functions) :
        /\ functions[j].path = functions[i].path
        /\ \A h \in 1..(j - 1) : functions[h].path # functions[i].path

\* C10 as claimed: the parentFunction of a document written from the frame
\* of a record P is the metadata.name written in P's document.
C10_ParentIsEnclosing ==
    \A w \in 1..Len(writes) :
        writes[w].via # 0 =>
            \E v \in 1..(w - 1) :
                /\ writes[v].function = writes[w].via
                /\ writes[w].yaml_data.parentFunction = writes[v].yaml_data.name

\* C10 as amended: the parentFunction of a document written from the frame of
\* a record P is the metadata.name written in the document of the first
\* record in file order that has P's path (P itself when no earlier record
\* shares its path).
C10_ParentIsFirstWithPath ==
    \A w \in 1..Len(writes) :
        writes[w].via # 0 =>
            \E v \in 1..(w - 1) :
                /\ writes[v].function = FirstWithPath(writes[w].via)
                /\ writes[w].yaml_data.parentFunction = writes[v].yaml_data.name

\* C10 witness: a document is written from the frame of a record that is not
\* the first with its path, and the two records' metadata names differ.
C10_Witness ==
    \E w \in 1..Len(writes) :
        /\ writes[w].via # 0
        /\ FirstWithPath(writes[w].via) # writes[w].via
        /\ sanitize_for_metadata(functions[writes[w].via].name)
               # writes[w].yaml_data.parentFunction

====
